---- MODULE Spec2Model ----
(***************************************************************************)
(* Hybrid FAQ search of the 498-backend Flask application                  *)
(* (src/app.py, search_faq): lexical scoring of a user question against    *)
(* the stored FAQs, the confident database tier, the AI fallback and the   *)
(* degraded tiers behind it.                                               *)
(*                                                                         *)
(* Text is a sequence of one-character strings, so that lower(), strip(),  *)
(* split() and the substring test `in` are computed as Python computes     *)
(* them.  Scores are counted in half points (the code adds 0.5 per answer  *)
(* word): a score of 2 in the code is 4 here.                              *)
(***************************************************************************)
EXTENDS Integers, Sequences, FiniteSets, TLC

\* ------------------------------------------------------------------ text

Whitespace == {" ", "\t"}

UpperChars == <<"A","B","C","D","E","F","G","H","I","J","K","L","M",
                "N","O","P","Q","R","S","T","U","V","W","X","Y","Z">>
LowerChars == <<"a","b","c","d","e","f","g","h","i","j","k","l","m",
                "n","o","p","q","r","s","t","u","v","w","x","y","z">>

\* str.lower() on one character
LowerChar(ch) ==
    IF \E i \in 1..Len(UpperChars) : UpperChars[i] = ch
    THEN LowerChars[CHOOSE i \in 1..Len(UpperChars) : UpperChars[i] = ch]
    ELSE ch

\* str.lower()
Lower(s) == [i \in 1..Len(s) |-> LowerChar(s[i])]

RECURSIVE LStrip(_)
LStrip(s) == IF s # <<>> /\ Head(s) \in Whitespace THEN LStrip(Tail(s)) ELSE s

RECURSIVE RStrip(_)
RStrip(s) ==
    IF s # <<>> /\ s[Len(s)] \in Whitespace
    THEN RStrip(SubSeq(s, 1, Len(s) - 1))
    ELSE s

\* str.strip()
StripBadNone(s) == s
Strip(s) == RStrip(LStrip(s))

\* The positions where a maximal run of non-whitespace starts
WordStarts(s) ==
    {i \in 1..Len(s) : s[i] \notin Whitespace /\ (i = 1 \/ s[i - 1] \in Whitespace)}

\* The position where the run that starts at i ends
WordEnd(s, i) ==
    CHOOSE j \in i..Len(s) :
        /\ \A k \in i..j : s[k] \notin Whitespace
        /\ j = Len(s) \/ s[j + 1] \in Whitespace

\* str.split(): the maximal runs of non-whitespace, in order
Split(s) ==
    LET starts == WordStarts(s)
        nth(k) == CHOOSE i \in starts : Cardinality({j \in starts : j < i}) = k - 1
    IN  [k \in 1..Cardinality(starts) |-> SubSeq(s, nth(k), WordEnd(s, nth(k)))]

\* Python's `sub in s` on strings (the empty string is in every string)
Contains(sub, s) ==
    \E i \in 0..(Len(s) - Len(sub)) : SubSeq(s, i + 1, i + Len(sub)) = sub

\* ---------------------------------------------------------------- inputs

\* Largest number of FAQ rows in the table
MaxFaqs == 2

\* Raw `question` values of request bodies
QuestionPool ==
    { <<>>   \* ''
    , <<" ","\t">>   \* ' \t'
    , <<" ","H","o","w"," ","t","o"," ","R","e","s","e","t"," ","P","a","s","s"," ">>
                                            \* ' How to Reset Pass '
    , <<"m","y"," ","v","a","c","a","t","i","o","n">>   \* 'my vacation'
    , <<"x","y","z","z","y">>   \* 'xyzzy'
    , <<"m","y">>   \* 'my'
    , <<"p","o","l","i","c"," ","v","a","c","a","t","i","o","n">>   \* 'polic vacation'
    }

\* Question/answer pairs that FAQ rows are made of
FaqPool ==
    { [question |-> <<"R","e","s","e","t"," ","p","a","s","s">>,
       answer |-> <<"u","s","e"," ","p","o","r","t","a","l">>]   \* 'Reset pass' / 'use portal'
    , [question |-> <<"p","a","s","s"," ","r","e","s","e","t"," ","n","o","w">>,
       answer |-> <<"o","k">>]   \* 'pass reset now' / 'ok'
    , [question |-> <<"l","e","a","v","e">>,
       answer |-> <<"m","y">>]   \* 'leave' / 'my'
    , [question |-> <<"v","a","c","a","t","i","o","n"," ","l","e","a","v","e","?">>,
       answer |-> <<"a","s","k"," ","b","o","s","s">>]   \* 'vacation leave?' / 'ask boss'
    , [question |-> <<"h","o","l","i","d","a","y">>,
       answer |-> <<"v","a","c","a","t","i","o","n"," ","f","o","r","m">>]   \* 'holiday' / 'vacation form'
    , [question |-> <<"v","a","c","a","t","i","o","n","s"," ","p","o","l","i","c","y">>,
       answer |-> <<"s","e","e"," ","p","o","r","t","a","l">>]   \* 'vacations policy' / 'see portal'
    , [question |-> <<"t","i","m","e"," ","o","f","f">>,
       answer |-> <<"v","a","c","a","t","i","o","n","s",":"," ","a","s","k">>]   \* 'time off' / 'vacations: ask'
    }

\* The JSON bodies a request can carry: no JSON object at all, an object
\* without the key, a `question` that is not a string, or a string
Bodies ==
    {[kind |-> k, question |-> <<>>] : k \in {"none", "no_key", "not_text"}}
        \cup {[kind |-> "text", question |-> q] : q \in QuestionPool}

\* Behaviours of ai_service.smart_answer for one call
AIModes == {"ok", "ok_min", "no_answer", "fail"}

\* The FAQ table: rows in primary-key order, ids 1..n
Tables ==
    UNION {{[i \in 1..n |-> [id |-> i, question |-> f[i].question,
                             answer |-> f[i].answer]] : f \in [1..n -> FaqPool]}
           : n \in 0..MaxFaqs}

\* Python's None for best_match
NoFaq == [id |-> 0, question |-> <<>>, answer |-> <<>>]

\* --------------------------------------------------------------- scoring
\* Points are half points: 2 is the code's 1, 1 is the code's 0.5.

QuestionWordPoints == 2
AnswerWordPoints == 1
QuestionContainPoints == 10
AnswerContainPoints == 6
MinWordLen == 2
ConfidentPoints == 4
HighPoints == 6
MinPartialLen == 3
MaxTopics == 8

\* The words of `words` that are longer than MinWordLen and occur in `text`,
\* counted with repetition (the loops at lines 226-228 and 232-234)
WordHitsBadShort(words, text) ==
    Cardinality({i \in 1..Len(words) :
                    Len(words[i]) > 1 /\ Contains(words[i], text)})
WordHits(words, text) ==
    Cardinality({i \in 1..Len(words) :
                    Len(words[i]) > MinWordLen /\ Contains(words[i], text)})

\* Lines 237 and 240: containment in either direction
ContainsEitherBadOneWay(a, b) == Contains(a, b)
ContainsEither(a, b) == Contains(a, b) \/ Contains(b, a)

\* The relevance score of one FAQ for the lowered user question
Score(user_question_lower, faq) ==
    LET question_lower == Lower(faq.question)
        answer_lower == Lower(faq.answer)
    IN  QuestionWordPoints * WordHits(Split(question_lower), user_question_lower)
        + AnswerWordPoints * WordHits(Split(answer_lower), user_question_lower)
        + (IF ContainsEither(user_question_lower, question_lower)
           THEN QuestionContainPoints ELSE 0)
        + (IF ContainsEither(user_question_lower, answer_lower)
           THEN AnswerContainPoints ELSE 0)

\* Line 244: a later FAQ replaces the best only with a higher score
BetterBadTie(score, best_score) == score >= best_score
BetterBadZero(score, best_score) ==
    score > best_score \/ (score = 0 /\ best_score = 0)
Better(score, best_score) == score > best_score

\* Line 203: `if not all_faqs`
NoCandidatesBadNever(fs) == FALSE
NoCandidates(fs) == fs = <<>>

\* Line 249: a good database match
IsConfidentBadStrict(best_match, best_score) ==
    best_match # NoFaq /\ best_score > ConfidentPoints
IsConfident(best_match, best_score) ==
    best_match # NoFaq /\ best_score >= ConfidentPoints

\* Line 254
ConfidenceLabelBadLow(best_score) ==
    IF best_score > ConfidentPoints THEN "high" ELSE "medium"
ConfidenceLabel(best_score) == IF best_score > HighPoints THEN "high" ELSE "medium"

\* Line 286: the best match is usable after the AI failed
UsableBestBadConfidentOnly(best_match, best_score) ==
    best_match # NoFaq /\ best_score >= ConfidentPoints
UsableBestBadNever(best_match, best_score) == FALSE
UsableBest(best_match, best_score) == best_match # NoFaq /\ best_score > 0

\* Lines 301-315: the partial matches, FAQ by FAQ in list order and, within
\* one FAQ, user word by user word in question order
WordMatchesFaqBadQuestionOnly(word, faq) ==
    Len(word) > MinPartialLen /\ Contains(word, Lower(faq.question))
WordMatchesFaq(word, faq) ==
    Len(word) > MinPartialLen
        /\ (Contains(word, Lower(faq.question)) \/ Contains(word, Lower(faq.answer)))

RECURSIVE WordsMatching(_, _)
WordsMatching(user_words, faq) ==
    IF user_words = <<>> THEN <<>>
    ELSE (IF WordMatchesFaq(Head(user_words), faq)
          THEN <<[faq |-> faq, matched_word |-> Head(user_words), score |-> 1]>>
          ELSE <<>>) \o WordsMatching(Tail(user_words), faq)

RECURSIVE PartialMatches(_, _)
PartialMatches(user_question_lower, fs) ==
    IF fs = <<>> THEN <<>>
    ELSE WordsMatching(Split(user_question_lower), Head(fs))
            \o PartialMatches(user_question_lower, Tail(fs))

\* Line 319: max(partial_matches, key=score) is the first entry of the
\* highest score
BestPartialBadLast(partial_matches) == partial_matches[Len(partial_matches)]
BestPartial(partial_matches) ==
    LET top == CHOOSE m \in 1..Len(partial_matches) :
                   \A k \in 1..Len(partial_matches) :
                       partial_matches[k].score <= partial_matches[m].score
        first == CHOOSE m \in 1..Len(partial_matches) :
                   /\ partial_matches[m].score = partial_matches[top].score
                   /\ \A k \in 1..(m - 1) :
                          partial_matches[k].score < partial_matches[top].score
    IN  partial_matches[first]

\* Line 340: [faq.question for faq in all_faqs[:8]]
AvailableTopicsBadAll(fs) == [i \in 1..Len(fs) |-> fs[i].question]
AvailableTopics(fs) ==
    [i \in 1..(IF Len(fs) < MaxTopics THEN Len(fs) ELSE MaxTopics) |-> fs[i].question]

\* ------------------------------------------------------------- responses
\* A response is the JSON object and the HTTP status; `fields` lists the
\* keys the object has (the timestamp key is left out), and a key that is
\* absent holds the value it has in Blank.

MsgNoFaqs == <<"No FAQs available in the database.">>
MsgPartialPrefix ==
    <<"While I don't have an exact answer, here's some related information: ">>
MsgNoMatch ==
    <<"I couldn't find a specific answer to your question. Here are some available topics you can ask about:">>
MsgSearchError == <<"Sorry, there was an error searching the FAQ database.">>

Blank ==
    [status |-> 0, fields |-> {}, question |-> <<>>, answer |-> <<>>,
     source |-> "", confidence |-> "", found |-> FALSE, faq_id |-> 0,
     relevance_score |-> 0, strategy |-> "", matched_word |-> <<>>,
     ai_error |-> "", available_topics |-> <<>>, error |-> "",
     similarity |-> 0, requires_human |-> FALSE]

\* Line 198
EmptyQuestionResponse ==
    [Blank EXCEPT !.status = 400, !.fields = {"error"},
                  !.error = "Question cannot be empty"]

\* Lines 204-210
NoFaqsResponse(user_question) ==
    [Blank EXCEPT !.status = 200,
                  !.fields = {"question", "answer", "source", "confidence", "found"},
                  !.question = user_question, !.answer = MsgNoFaqs,
                  !.source = "database", !.confidence = "low", !.found = FALSE]

\* Lines 250-260
DatabaseResponse(user_question, best_match, best_score) ==
    [Blank EXCEPT !.status = 200,
                  !.fields = {"question", "answer", "source", "confidence", "found",
                              "faq_id", "relevance_score", "strategy"},
                  !.question = user_question, !.answer = best_match.answer,
                  !.source = "database_faq",
                  !.confidence = ConfidenceLabel(best_score),
                  !.found = TRUE, !.faq_id = best_match.id,
                  !.relevance_score = best_score, !.strategy = "database_first"]

\* What ai_service.smart_answer returns when it returns: `keys` are the keys
\* of the dictionary
AIAnswer(mode) ==
    [keys |-> IF mode = "ok" THEN {"answer", "confidence", "similarity", "requires_human"}
              ELSE IF mode = "ok_min" THEN {"answer"}
              ELSE {"confidence"},
     answer |-> <<"generated answer">>, confidence |-> "high",
     similarity |-> 1, requires_human |-> TRUE]

\* str(ai_error) for a call that does not yield an answer: the service's own
\* error, or the KeyError of ai_result['answer']
AIErrorText(mode) == IF mode = "fail" THEN "AI service unavailable" ELSE "'answer'"

\* Lines 269-280
AIResponse(user_question, ai_result) ==
    [Blank EXCEPT !.status = 200,
                  !.fields = {"question", "answer", "source", "confidence", "found",
                              "strategy", "similarity", "requires_human"},
                  !.question = user_question, !.answer = ai_result.answer,
                  !.source = "ai_service",
                  !.confidence = IF "confidence" \in ai_result.keys
                                 THEN ai_result.confidence ELSE "medium",
                  !.found = TRUE, !.strategy = "ai_fallback",
                  !.similarity = IF "similarity" \in ai_result.keys
                                 THEN ai_result.similarity ELSE 0,
                  !.requires_human = IF "requires_human" \in ai_result.keys
                                     THEN ai_result.requires_human ELSE FALSE]

\* Lines 287-298
FallbackResponse(user_question, best_match, best_score, err) ==
    [Blank EXCEPT !.status = 200,
                  !.fields = {"question", "answer", "source", "confidence", "found",
                              "faq_id", "relevance_score", "strategy", "ai_error"},
                  !.question = user_question, !.answer = best_match.answer,
                  !.source = "database_faq_fallback", !.confidence = "low",
                  !.found = TRUE, !.faq_id = best_match.id,
                  !.relevance_score = best_score,
                  !.strategy = "database_fallback", !.ai_error = err]

\* Lines 320-331
PartialResponse(user_question, best_partial, err) ==
    [Blank EXCEPT !.status = 200,
                  !.fields = {"question", "answer", "source", "confidence", "found",
                              "faq_id", "strategy", "matched_word", "ai_error"},
                  !.question = user_question,
                  !.answer = MsgPartialPrefix \o best_partial.faq.answer,
                  !.source = "database_partial_match", !.confidence = "low",
                  !.found = TRUE, !.faq_id = best_partial.faq.id,
                  !.strategy = "partial_database_match",
                  !.matched_word = best_partial.matched_word, !.ai_error = err]

\* Lines 333-343
NoMatchResponseBadNoAnswer(user_question, fs, err) ==
    [Blank EXCEPT !.status = 200,
                  !.fields = {"question", "source", "confidence", "found", "strategy",
                              "available_topics", "ai_error"},
                  !.question = user_question,
                  !.source = "no_match", !.confidence = "low", !.found = FALSE,
                  !.strategy = "no_match",
                  !.available_topics = AvailableTopics(fs), !.ai_error = err]
NoMatchResponse(user_question, fs, err) ==
    [Blank EXCEPT !.status = 200,
                  !.fields = {"question", "answer", "source", "confidence", "found",
                              "strategy", "available_topics", "ai_error"},
                  !.question = user_question, !.answer = MsgNoMatch,
                  !.source = "no_match", !.confidence = "low", !.found = FALSE,
                  !.strategy = "no_match",
                  !.available_topics = AvailableTopics(fs), !.ai_error = err]

\* Lines 347-353
ErrorResponse(user_question, err) ==
    [Blank EXCEPT !.status = 500,
                  !.fields = {"question", "answer", "source", "confidence", "error"},
                  !.question = user_question, !.answer = MsgSearchError,
                  !.source = "error", !.confidence = "low", !.error = err]

\* ----------------------------------------------------------------- state

VARIABLES
    faqs,           \* the FAQ table (FAQ.query.all() returns it)
    pc,             \* where each call of search_faq stands
    body,           \* request.get_json() of the call
    ai_mode,        \* how ai_service.smart_answer behaves for the call
    user_question,  \* locals of search_faq, per call
    all_faqs,
    idx,            \* position of the scoring loop in all_faqs
    best_match,
    best_score,
    ai_error,
    ai_calls,       \* calls of ai_service.smart_answer made by the call
    db_reads,       \* FAQ.query.all() calls made by the call
    bound,          \* the locals of the call that have been assigned
    result,         \* the response the call returned
    raised          \* the exception that left search_faq, "" if none

VARIABLES
    boot,           \* where the start of the process stands ("serving" once
                    \* app.run accepts requests)
    schema,         \* the tables exist in the database
    retry_count,    \* local of init_database
    attempts,       \* connection tests made by init_database
    sleeps,         \* the time.sleep calls init_database made, in seconds
    connected,      \* a connection test of init_database succeeded
    created,        \* init_database ran db.create_all()
    init_error,     \* the exception that left init_database, "" if none
    startup_logged, \* the module logged "Failed to initialize Railway database"
    migration_success,  \* local of main in start_railway.py ("unset" before)
    import_outcome, \* how import_initial_data ended ("unset" if not called)
    run_called,     \* main reached app.run
    exit_code,      \* the status the process exited with, -1 while it runs
    next_id         \* the id the database gives the next FAQ row

VARIABLES
    logs,           \* the committed rows of the Log table
    pending,        \* rows added to db.session and not committed yet
    chat_pc,        \* where the call of smart_chat stands
    chat_body,      \* request.get_json() of the call
    chat_question,  \* locals of smart_chat
    session_active,
    chat_failed_at, \* the statement of smart_chat that raised, "" if none
    chat_status,    \* the HTTP status smart_chat returned, 0 before
    logs_before     \* the Log table when the request arrived

\* The state of /api/chat
chat == <<logs, pending, chat_pc, chat_body, chat_question, session_active,
          chat_failed_at, chat_status, logs_before>>

\* The state outside search_faq and the FAQ table
env == <<boot, schema, retry_count, attempts, sleeps, connected, created,
         init_error, startup_logged, migration_success, import_outcome,
         run_called, exit_code, next_id, chat>>

vars == <<env, faqs, pc, body, ai_mode, user_question, all_faqs, idx, best_match,
          best_score, ai_error, ai_calls, db_reads, bound, result, raised>>

\* The calls in flight
Calls == DOMAIN pc

locals == <<user_question, all_faqs, idx, best_match, best_score, ai_error,
            ai_calls, db_reads, bound, result, raised>>

InitCalls(ids) ==
    /\ pc = [c \in ids |-> "idle"]
    /\ body = [c \in ids |-> [kind |-> "none", question |-> <<>>]]
    /\ ai_mode = [c \in ids |-> "fail"]
    /\ user_question = [c \in ids |-> <<>>]
    /\ all_faqs = [c \in ids |-> <<>>]
    /\ idx = [c \in ids |-> 0]
    /\ best_match = [c \in ids |-> NoFaq]
    /\ best_score = [c \in ids |-> 0]
    /\ ai_error = [c \in ids |-> ""]
    /\ ai_calls = [c \in ids |-> 0]
    /\ db_reads = [c \in ids |-> 0]
    /\ bound = [c \in ids |-> {}]
    /\ result = [c \in ids |-> Blank]
    /\ raised = [c \in ids |-> ""]

\* No request of /api/chat yet
InitChat ==
    /\ logs = <<>>
    /\ pending = <<>>
    /\ chat_pc = "idle"
    /\ chat_body = [kind |-> "none", question |-> <<>>, session_id |-> ""]
    /\ chat_question = <<>>
    /\ session_active = FALSE
    /\ chat_failed_at = ""
    /\ chat_status = 0
    /\ logs_before = <<>>

\* The process is up and serving
InitServing ==
    /\ boot = "serving"
    /\ schema = TRUE
    /\ retry_count = 0
    /\ attempts = 0
    /\ sleeps = <<>>
    /\ connected = FALSE
    /\ created = FALSE
    /\ init_error = ""
    /\ startup_logged = FALSE
    /\ migration_success = "unset"
    /\ import_outcome = "unset"
    /\ run_called = TRUE
    /\ exit_code = -1
    /\ next_id = Len(faqs) + 1
    /\ InitChat

Init ==
    /\ faqs \in Tables
    /\ InitServing
    /\ InitCalls({1})

\* A request reaches /api/faq/search, with a body of `bodies`, while the AI
\* service behaves in one of `modes`
ReceiveFrom(c, bodies, modes) ==
    /\ boot = "serving"
    /\ pc[c] = "idle"
    /\ \E b \in bodies, m \in modes :
          /\ body' = [body EXCEPT ![c] = b]
          /\ ai_mode' = [ai_mode EXCEPT ![c] = m]
    /\ pc' = [pc EXCEPT ![c] = "parse"]
    /\ UNCHANGED <<env, faqs, locals>>

Receive(c) == ReceiveFrom(c, Bodies, AIModes)

\* The outcome of a call that ends with `response`
ReturnBadBroadcast(c, response) ==
    /\ result' = [k \in Calls |-> response]
    /\ pc' = [pc EXCEPT ![c] = "done"]
Return(c, response) ==
    /\ result' = [result EXCEPT ![c] = response]
    /\ pc' = [pc EXCEPT ![c] = "done"]

\* Lines 345-353: the handler of the outer try.  It reads user_question; when
\* the failing statement came before its assignment, the read raises
\* UnboundLocalError and that exception leaves search_faq.
HandleException(c, err) ==
    IF "user_question" \in bound[c]
    THEN /\ Return(c, ErrorResponse(user_question[c], err))
         /\ raised' = raised
    ELSE /\ raised' = [raised EXCEPT ![c] = "UnboundLocalError"]
         /\ pc' = [pc EXCEPT ![c] = "done"]
         /\ result' = result

\* Lines 194-198.  data.get on None and .strip() on a value that is no string
\* raise AttributeError inside the try.
ParseQuestion(c) ==
    /\ pc[c] = "parse"
    /\ IF body[c].kind \in {"none", "not_text"}
       THEN /\ HandleException(c, "AttributeError")
            /\ UNCHANGED <<user_question, bound>>
       ELSE LET q == Strip(body[c].question)
            IN  /\ user_question' = [user_question EXCEPT ![c] = q]
                /\ bound' = [bound EXCEPT ![c] = @ \cup {"user_question"}]
                /\ raised' = raised
                /\ IF q = <<>>
                   THEN Return(c, EmptyQuestionResponse)
                   ELSE /\ pc' = [pc EXCEPT ![c] = "query"]
                        /\ result' = result
    /\ UNCHANGED <<env, faqs, body, ai_mode, all_faqs, idx, best_match, best_score,
                   ai_error, ai_calls, db_reads>>

\* Lines 201-215: the table is read; an empty one ends the call
QueryAll(c) ==
    /\ pc[c] = "query"
    /\ schema
    /\ all_faqs' = [all_faqs EXCEPT ![c] = faqs]
    /\ db_reads' = [db_reads EXCEPT ![c] = @ + 1]
    /\ bound' = [bound EXCEPT ![c] = @ \cup {"all_faqs"}]
    /\ IF NoCandidates(faqs)
       THEN /\ Return(c, NoFaqsResponse(user_question[c]))
            /\ UNCHANGED <<idx, best_match, best_score>>
       ELSE /\ pc' = [pc EXCEPT ![c] = "score"]
            /\ idx' = [idx EXCEPT ![c] = 1]
            /\ best_match' = [best_match EXCEPT ![c] = NoFaq]
            /\ best_score' = [best_score EXCEPT ![c] = 0]
            /\ result' = result
    /\ UNCHANGED <<env, faqs, body, ai_mode, user_question, ai_error, ai_calls, raised>>

\* Line 201 raising (the database cannot be reached): the handler at 345-353
\* answers with status 500
QueryAllFails(c) ==
    /\ pc[c] = "query"
    /\ db_reads' = [db_reads EXCEPT ![c] = @ + 1]
    /\ HandleException(c, "OperationalError")
    /\ UNCHANGED <<env, faqs, body, ai_mode, user_question, all_faqs, idx, best_match,
                   best_score, ai_error, ai_calls, bound>>

\* The best score kept by any call in flight
SharedBest == CHOOSE b \in {best_score[k] : k \in Calls} :
                  \A k \in Calls : best_score[k] <= b

\* One turn of the scoring loop that compares with the best of every call
ScoreStepBadShared(c) ==
    /\ pc[c] = "score"
    /\ idx[c] <= Len(all_faqs[c])
    /\ LET faq == all_faqs[c][idx[c]]
           score == Score(Lower(user_question[c]), faq)
       IN  IF Better(score, SharedBest)
           THEN /\ best_score' = [best_score EXCEPT ![c] = score]
                /\ best_match' = [best_match EXCEPT ![c] = faq]
           ELSE UNCHANGED <<best_score, best_match>>
    /\ idx' = [idx EXCEPT ![c] = @ + 1]
    /\ UNCHANGED <<env, faqs, pc, body, ai_mode, user_question, all_faqs, ai_error,
                   ai_calls, db_reads, bound, result, raised>>

\* Lines 217-246: one turn of the scoring loop
ScoreStep(c) ==
    /\ pc[c] = "score"
    /\ idx[c] <= Len(all_faqs[c])
    /\ LET faq == all_faqs[c][idx[c]]
           score == Score(Lower(user_question[c]), faq)
       IN  IF Better(score, best_score[c])
           THEN /\ best_score' = [best_score EXCEPT ![c] = score]
                /\ best_match' = [best_match EXCEPT ![c] = faq]
           ELSE UNCHANGED <<best_score, best_match>>
    /\ idx' = [idx EXCEPT ![c] = @ + 1]
    /\ UNCHANGED <<env, faqs, pc, body, ai_mode, user_question, all_faqs, ai_error,
                   ai_calls, db_reads, bound, result, raised>>

\* Lines 248-262: after the loop, a good database match is returned
Select(c) ==
    /\ pc[c] = "score"
    /\ idx[c] > Len(all_faqs[c])
    /\ IF IsConfident(best_match[c], best_score[c])
       THEN Return(c, DatabaseResponse(user_question[c], best_match[c], best_score[c]))
       ELSE /\ pc' = [pc EXCEPT ![c] = "ai"]
            /\ result' = result
    /\ UNCHANGED <<env, faqs, body, ai_mode, user_question, all_faqs, idx, best_match,
                   best_score, ai_error, ai_calls, db_reads, bound, raised>>

\* Lines 263-283 with a retry of the failed call
AttemptAIBadRetry(c) ==
    /\ pc[c] = "ai"
    /\ ai_calls' = [ai_calls EXCEPT ![c] = @ + 1]
    /\ IF ai_mode[c] # "fail" /\ "answer" \in AIAnswer(ai_mode[c]).keys
       THEN /\ Return(c, AIResponse(user_question[c], AIAnswer(ai_mode[c])))
            /\ ai_error' = ai_error
       ELSE /\ ai_error' = [ai_error EXCEPT ![c] = AIErrorText(ai_mode[c])]
            /\ pc' = [pc EXCEPT ![c] = IF ai_calls[c] = 0 THEN "ai" ELSE "ai_failed"]
            /\ result' = result
    /\ UNCHANGED <<env, faqs, body, ai_mode, user_question, all_faqs, idx, best_match,
                   best_score, db_reads, bound, raised>>

\* Lines 263-283: the one call of the AI service and its answer; an exception
\* of the call, or of reading ai_result['answer'], is caught at line 282
AttemptAI(c) ==
    /\ pc[c] = "ai"
    /\ ai_calls' = [ai_calls EXCEPT ![c] = @ + 1]
    /\ IF ai_mode[c] # "fail" /\ "answer" \in AIAnswer(ai_mode[c]).keys
       THEN /\ Return(c, AIResponse(user_question[c], AIAnswer(ai_mode[c])))
            /\ ai_error' = ai_error
       ELSE /\ ai_error' = [ai_error EXCEPT ![c] = AIErrorText(ai_mode[c])]
            /\ pc' = [pc EXCEPT ![c] = "ai_failed"]
            /\ result' = result
    /\ UNCHANGED <<env, faqs, body, ai_mode, user_question, all_faqs, idx, best_match,
                   best_score, db_reads, bound, raised>>

\* Lines 285-343: the tiers behind a failed AI call
AfterAIFailure(c) ==
    /\ pc[c] = "ai_failed"
    /\ IF UsableBest(best_match[c], best_score[c])
       THEN Return(c, FallbackResponse(user_question[c], best_match[c],
                                       best_score[c], ai_error[c]))
       ELSE LET partial_matches ==
                    PartialMatches(Lower(user_question[c]), all_faqs[c])
            IN  IF partial_matches # <<>>
                THEN Return(c, PartialResponse(user_question[c],
                                               BestPartial(partial_matches),
                                               ai_error[c]))
                ELSE Return(c, NoMatchResponse(user_question[c], all_faqs[c],
                                               ai_error[c]))
    /\ UNCHANGED <<env, faqs, body, ai_mode, user_question, all_faqs, idx, best_match,
                   best_score, ai_error, ai_calls, db_reads, bound, raised>>

\* The call is over: its locals are gone
ForgetCall(c) ==
    /\ pc[c] = "done"
    /\ pc' = [pc EXCEPT ![c] = "idle"]
    /\ user_question' = [user_question EXCEPT ![c] = <<>>]
    /\ all_faqs' = [all_faqs EXCEPT ![c] = <<>>]
    /\ idx' = [idx EXCEPT ![c] = 0]
    /\ best_match' = [best_match EXCEPT ![c] = NoFaq]
    /\ best_score' = [best_score EXCEPT ![c] = 0]
    /\ ai_error' = [ai_error EXCEPT ![c] = ""]
    /\ ai_calls' = [ai_calls EXCEPT ![c] = 0]
    /\ db_reads' = [db_reads EXCEPT ![c] = 0]
    /\ bound' = [bound EXCEPT ![c] = {}]
    /\ result' = [result EXCEPT ![c] = Blank]
    /\ raised' = [raised EXCEPT ![c] = ""]
    /\ body' = [body EXCEPT ![c] = [kind |-> "none", question |-> <<>>]]
    /\ ai_mode' = [ai_mode EXCEPT ![c] = "fail"]

\* The same with the last row of the table deleted on the way out
RespondBadWrite(c) ==
    /\ ForgetCall(c)
    /\ faqs' = SubSeq(faqs, 1, Len(faqs) - 1)
    /\ UNCHANGED env

Respond(c) ==
    /\ ForgetCall(c)
    /\ UNCHANGED <<env, faqs>>

Next ==
    \/ \E c \in Calls : Receive(c)
    \/ \E c \in Calls : ParseQuestion(c)
    \/ \E c \in Calls : QueryAll(c)
    \/ \E c \in Calls : QueryAllFails(c)
    \/ \E c \in Calls : ScoreStep(c)
    \/ \E c \in Calls : Select(c)
    \/ \E c \in Calls : AttemptAI(c)
    \/ \E c \in Calls : AfterAIFailure(c)
    \/ \E c \in Calls : Respond(c)

Spec == Init /\ [][Next]_vars

\* ---------------------------------------------------------------- claims
\* Vocabulary of the claims, stated on the call's inputs rather than on the
\* values the scoring loop keeps.

\* The call returned a response
Returned(c) == pc[c] = "done" /\ raised[c] = ""

\* The call read the table and found rows in it
HasCandidates(c) == "all_faqs" \in bound[c] /\ all_faqs[c] # <<>>

\* The call read the table and found it empty
EmptyCandidates(c) == "all_faqs" \in bound[c] /\ all_faqs[c] = <<>>

\* The AI service yields no answer for the call
AIFailing(c) == ai_mode[c] \in {"fail", "no_answer"}

\* The score of the i-th candidate for the call's question
ScoreAt(c, i) == Score(Lower(user_question[c]), all_faqs[c][i])

\* The scores of the first n candidates, in table order
Scores(c, n) == [i \in 1..n |-> ScoreAt(c, i)]

\* The highest of a sequence of scores (0 for none)
TopOf(sc) ==
    IF Len(sc) = 0 THEN 0
    ELSE sc[CHOOSE i \in 1..Len(sc) : \A k \in 1..Len(sc) : sc[k] <= sc[i]]

\* The first position of the highest score
FirstTopOf(sc) ==
    CHOOSE i \in 1..Len(sc) :
        /\ \A k \in 1..Len(sc) : sc[k] <= sc[i]
        /\ \A k \in 1..(i - 1) : sc[k] < sc[i]

\* The highest score among the first n candidates (0 for none)
TopScore(c, n) == TopOf(Scores(c, n))

\* The request carries a question that is empty or only whitespace
BlankQuestion(c) ==
    /\ body[c].kind \in {"no_key", "text"}
    /\ \A i \in 1..Len(body[c].question) : body[c].question[i] \in Whitespace

C2_FailureAlwaysFallback ==
    \A c \in Calls :
        (Returned(c) /\ HasCandidates(c) /\ AIFailing(c)
            /\ \E i \in 1..Len(all_faqs[c]) : ScoreAt(c, i) > 0)
            => result[c].source = "database_faq_fallback"

\* C2 amended: when the AI service fails and some candidate scores above 0,
\* the source is the database fallback if the best score is below 2.0 and the
\* confident database tier if it is 2.0 or more; it is never no_match or error.
C2_FailureDegradation ==
    \A c \in Calls :
        (Returned(c) /\ HasCandidates(c) /\ AIFailing(c)
            /\ \E i \in 1..Len(all_faqs[c]) : ScoreAt(c, i) > 0)
            => /\ result[c].source =
                      IF TopScore(c, Len(all_faqs[c])) >= ConfidentPoints
                      THEN "database_faq" ELSE "database_faq_fallback"
               /\ result[c].status = 200
               /\ result[c].source \notin {"no_match", "error"}

C2_Witness ==
    \E c \in Calls :
        /\ Returned(c) /\ HasCandidates(c) /\ AIFailing(c)
        /\ TopScore(c, Len(all_faqs[c])) > 0
        /\ TopScore(c, Len(all_faqs[c])) < ConfidentPoints
        /\ result[c].source = "database_faq_fallback"
        /\ ai_calls[c] = 1

\* C3: when the whole stored question of some candidate is a case-insensitive
\* substring of the (stripped) user question, that candidate scores at least
\* 5.0, the call ends in the confident database tier with found true, and the
\* AI service is never called during the call.
C3_ContainedQuestionIsConfident ==
    \A c \in Calls :
        HasCandidates(c) =>
            \A i \in 1..Len(all_faqs[c]) :
                Contains(Lower(all_faqs[c][i].question), Lower(user_question[c]))
                    => /\ ScoreAt(c, i) >= QuestionContainPoints
                       /\ ai_calls[c] = 0
                       /\ pc[c] \in {"score", "done"}
                       /\ pc[c] = "done"
                            => /\ raised[c] = ""
                               /\ result[c].source = "database_faq"
                               /\ result[c].strategy = "database_first"
                               /\ result[c].found = TRUE

C3_Witness ==
    \E c \in Calls :
        /\ Returned(c) /\ HasCandidates(c)
        /\ \E i \in 1..Len(all_faqs[c]) :
              /\ Contains(Lower(all_faqs[c][i].question), Lower(user_question[c]))
              /\ Len(all_faqs[c][i].question) < Len(user_question[c])
        /\ result[c].source = "database_faq"

\* C4: in every call the AI service is attempted at most once: exactly once
\* when the table has rows and no candidate reaches the confidence threshold,
\* never when the question is empty, the table is empty or a confident match
\* exists; after a failed attempt it is not attempted again.
C4_OneAttempt ==
    \A c \in Calls :
        /\ ai_calls[c] <= 1
        /\ pc[c] = "ai_failed" => ai_calls[c] = 1
        /\ pc[c] = "done" =>
              ai_calls[c] =
                  IF HasCandidates(c)
                        /\ \A i \in 1..Len(all_faqs[c]) : ScoreAt(c, i) < ConfidentPoints
                  THEN 1 ELSE 0

C4_Witness ==
    \E c \in Calls :
        /\ Returned(c) /\ HasCandidates(c)
        /\ ai_mode[c] = "fail"
        /\ ai_calls[c] = 1
        /\ result[c].ai_error = AIErrorText("fail")

\* C5: every response to a non-empty question, in each of the tiers (no
\* candidates, confident database match, AI answer, database fallback,
\* partial match, no match), carries an answer string.
C5_AlwaysAnAnswer ==
    \A c \in Calls :
        (Returned(c) /\ user_question[c] # <<>>)
            => /\ "answer" \in result[c].fields
               /\ result[c].status = 200 =>
                     result[c].source \in
                         {"database", "database_faq", "ai_service",
                          "database_faq_fallback", "database_partial_match", "no_match"}

C5_Witness ==
    \E c \in Calls :
        /\ Returned(c) /\ user_question[c] # <<>>
        /\ result[c].source = "no_match"
        /\ result[c].answer = MsgNoMatch

\* C6: a question that is empty or only whitespace is answered with status
\* 400 before anything else happens: the table is not read, no candidate is
\* scored and the AI service is not called.
C6_BlankQuestionRejected ==
    \A c \in Calls :
        (pc[c] # "idle" /\ BlankQuestion(c))
            => /\ pc[c] \in {"parse", "done"}
               /\ db_reads[c] = 0
               /\ "all_faqs" \notin bound[c]
               /\ idx[c] = 0
               /\ ai_calls[c] = 0
               /\ pc[c] = "done"
                    => /\ raised[c] = ""
                       /\ result[c].status = 400
                       /\ result[c].fields = {"error"}

C6_Witness ==
    \E c \in Calls :
        /\ Returned(c) /\ BlankQuestion(c)
        /\ body[c].question # <<>>
        /\ result[c].status = 400

\* C7 as stated: no exception leaves search_faq; a failed AI call ends in the
\* database fallback, a partial match or no match, and every other failure
\* still ends in a response.
C7_NeverRaises ==
    \A c \in Calls :
        /\ raised[c] = ""
        /\ (pc[c] = "done" /\ ai_calls[c] > 0 /\ AIFailing(c))
              => result[c].source \in
                     {"database_faq_fallback", "database_partial_match", "no_match"}
        /\ pc[c] = "done" => result[c].status \in {200, 400, 500}

\* C8: the database tier is returned exactly when the best score is at least
\* 2.0; its confidence is high above 3.0 and medium from 2.0 to 3.0, and its
\* relevance score and FAQ id are those of the best candidate.
C8_DatabaseTier ==
    \A c \in Calls :
        (Returned(c) /\ HasCandidates(c)) =>
            LET sc == Scores(c, Len(all_faqs[c]))
                top == TopOf(sc)
            IN  /\ result[c].source = "database_faq" <=> top >= ConfidentPoints
                /\ result[c].source = "database_faq" =>
                      /\ result[c].confidence =
                             (IF top > HighPoints THEN "high" ELSE "medium")
                      /\ result[c].relevance_score = top
                      /\ result[c].faq_id = all_faqs[c][FirstTopOf(sc)].id
                      /\ result[c].answer = all_faqs[c][FirstTopOf(sc)].answer

C8_Witness ==
    \E c \in Calls :
        /\ Returned(c) /\ HasCandidates(c)
        /\ result[c].source = "database_faq"
        /\ result[c].relevance_score = HighPoints
        /\ result[c].confidence = "medium"

\* C9: the best candidate kept by the scoring loop is the one of strictly
\* highest score among the candidates scored so far, the first of them when
\* several share that score (none is kept while the highest score is 0).
C9_FirstHighestWins ==
    \A c \in Calls :
        (HasCandidates(c) /\ pc[c] \in {"score", "ai", "ai_failed", "done"}) =>
            LET n == idx[c] - 1
                sc == Scores(c, n)
            IN  /\ best_score[c] = TopOf(sc)
                /\ best_match[c] =
                       IF TopOf(sc) > 0 THEN all_faqs[c][FirstTopOf(sc)] ELSE NoFaq
                /\ pc[c] # "score" => n = Len(all_faqs[c])

C9_Witness ==
    \E c \in Calls :
        /\ HasCandidates(c) /\ pc[c] = "done"
        /\ Len(all_faqs[c]) = 2
        /\ ScoreAt(c, 1) = ScoreAt(c, 2)
        /\ ScoreAt(c, 1) > 0
        /\ best_match[c] = all_faqs[c][1]

\* The words of a text, as a set
WordSet(text) == {Split(text)[k] : k \in 1..Len(Split(text))}

\* The whitespace-delimited words the user question shares with the i-th
\* candidate's question or answer
SharedWords(c, i) ==
    WordSet(Lower(user_question[c]))
        \cap (WordSet(Lower(all_faqs[c][i].question))
                \cup WordSet(Lower(all_faqs[c][i].answer)))

\* Exactly one candidate shares a word with the user question: it is the
\* i-th, and the only word it shares is w, which is longer than 3
OnlySharedWord(c, i, w) ==
    /\ SharedWords(c, i) = {w}
    /\ Len(w) > MinPartialLen
    /\ \A k \in 1..Len(all_faqs[c]) : k # i => SharedWords(c, k) = {}

\* The user words longer than 3 that occur inside the i-th candidate's
\* question or answer
WordsInside(c, i) ==
    {w \in WordSet(Lower(user_question[c])) :
        /\ Len(w) > MinPartialLen
        /\ \/ Contains(w, Lower(all_faqs[c][i].question))
           \/ Contains(w, Lower(all_faqs[c][i].answer))}

\* C10 as stated: the AI service fails, no candidate is confident and exactly
\* one candidate shares one word longer than 3 with the user question and
\* nothing else: the response is a partial match on that word.
C10_SharedWordIsPartialMatch ==
    \A c \in Calls :
        (Returned(c) /\ HasCandidates(c) /\ AIFailing(c)
            /\ TopScore(c, Len(all_faqs[c])) < ConfidentPoints) =>
            \A i \in 1..Len(all_faqs[c]) :
                \A w \in SharedWords(c, i) :
                    OnlySharedWord(c, i, w)
                        => /\ result[c].source = "database_partial_match"
                           /\ result[c].matched_word = w

\* C10 amended: in that case the shared word gives the candidate a score
\* above 0 and the response is the database fallback.  The response is a
\* partial match on the word when instead every candidate scores 0 and the
\* word is the only user word longer than 3 that occurs inside the text of a
\* candidate, and of one candidate only (as "vacation" inside "vacations").
C10_SharedWordOutcome ==
    \A c \in Calls :
        (Returned(c) /\ HasCandidates(c) /\ AIFailing(c)
            /\ TopScore(c, Len(all_faqs[c])) < ConfidentPoints) =>
            \A i \in 1..Len(all_faqs[c]) :
                /\ \A w \in SharedWords(c, i) :
                      OnlySharedWord(c, i, w)
                          => /\ result[c].source = "database_faq_fallback"
                             /\ result[c].relevance_score > 0
                /\ \A w \in WordsInside(c, i) :
                      (/\ TopScore(c, Len(all_faqs[c])) = 0
                       /\ WordsInside(c, i) = {w}
                       /\ \A k \in 1..Len(all_faqs[c]) :
                              k # i => WordsInside(c, k) = {})
                          => /\ result[c].source = "database_partial_match"
                             /\ result[c].matched_word = w
                             /\ result[c].faq_id = all_faqs[c][i].id
                             /\ result[c].answer
                                    = MsgPartialPrefix \o all_faqs[c][i].answer

C10_Witness ==
    \E c \in Calls :
        /\ Returned(c) /\ HasCandidates(c) /\ AIFailing(c)
        /\ TopScore(c, Len(all_faqs[c])) < ConfidentPoints
        /\ \E i \in 1..Len(all_faqs[c]) :
              \E w \in SharedWords(c, i) : OnlySharedWord(c, i, w)
        /\ result[c].source = "database_faq_fallback"

\* The partial-match case of C10 is reached
C10_PartialReached ==
    \E c \in Calls :
        /\ Returned(c) /\ HasCandidates(c) /\ AIFailing(c)
        /\ TopScore(c, Len(all_faqs[c])) = 0
        /\ \E i \in 1..Len(all_faqs[c]) :
              /\ Cardinality(WordsInside(c, i)) = 1
              /\ \A k \in 1..Len(all_faqs[c]) : k # i => WordsInside(c, k) = {}
        /\ result[c].source = "database_partial_match"

\* The call went on to the AI service and the service yielded no answer
AIFailed(c) == Returned(c) /\ HasCandidates(c) /\ AIFailing(c) /\ ai_calls[c] = 1

\* The i-th candidate is the first, in table order, with a hit: a user word
\* longer than 3 that occurs inside its question or answer
FirstHitCandidate(c, i) ==
    /\ WordsInside(c, i) # {}
    /\ \A k \in 1..(i - 1) : WordsInside(c, k) = {}

\* w is the first word of the user question, in question order, that hits
\* the i-th candidate
FirstHitWord(c, i, w) ==
    LET user_words == Split(Lower(user_question[c]))
    IN  \E j \in 1..Len(user_words) :
            /\ user_words[j] = w
            /\ w \in WordsInside(c, i)
            /\ \A k \in 1..(j - 1) : user_words[k] \notin WordsInside(c, i)

\* C17: a partial-match response is the first hit found when the candidates
\* are taken in table order and, within a candidate, the user words in
\* question order; its answer is that candidate's answer behind the
\* inexact-match prefix.
C17_FirstHitWins ==
    \A c \in Calls :
        (Returned(c) /\ result[c].source = "database_partial_match") =>
            \E i \in 1..Len(all_faqs[c]) :
                /\ FirstHitCandidate(c, i)
                /\ FirstHitWord(c, i, result[c].matched_word)
                /\ result[c].faq_id = all_faqs[c][i].id
                /\ result[c].answer = MsgPartialPrefix \o all_faqs[c][i].answer
                /\ result[c].found = TRUE
                /\ result[c].confidence = "low"

C17_Witness ==
    \E c \in Calls :
        /\ Returned(c) /\ result[c].source = "database_partial_match"
        /\ Len(all_faqs[c]) = 2
        /\ WordsInside(c, 1) # {}
        /\ Cardinality(WordsInside(c, 2)) = 2
        /\ result[c].faq_id = all_faqs[c][1].id

\* C18: once every candidate is scored a best match is kept exactly when the
\* best score is above 0; so after a failure of the AI service the response
\* is the database fallback exactly when some candidate scored above 0, and
\* the partial-match scan decides the response only when all scored 0.
C18_BestIffPositive ==
    \A c \in Calls :
        (HasCandidates(c) /\ pc[c] \in {"ai", "ai_failed", "done"}) =>
            LET top == TopScore(c, Len(all_faqs[c]))
            IN  /\ (best_match[c] # NoFaq) <=> (best_score[c] > 0)
                /\ (best_match[c] # NoFaq) <=> (top > 0)
                /\ AIFailed(c) =>
                      /\ (top > 0) <=> (result[c].source = "database_faq_fallback")
                      /\ (top = 0) <=> (result[c].source
                                          \in {"database_partial_match", "no_match"})

C18_Witness ==
    \E c \in Calls :
        /\ AIFailed(c)
        /\ Len(all_faqs[c]) = 2
        /\ ScoreAt(c, 1) = 0
        /\ ScoreAt(c, 2) > 0
        /\ best_match[c] = all_faqs[c][2]
        /\ result[c].source = "database_faq_fallback"

\* The partial-match scan of C18 is reached with every score at 0
C18_ScanReached ==
    \E c \in Calls :
        /\ AIFailed(c)
        /\ TopScore(c, Len(all_faqs[c])) = 0
        /\ best_match[c] = NoFaq
        /\ result[c].source = "database_partial_match"

\* ---------------------------------------------------------------------
\* The start of the process on Railway: `from app import app` runs
\* init_database (src/app.py), then main of src/start_railway.py migrates,
\* imports the sample data and starts the web server.

\* Line 361 of src/app.py
max_retries == 3

\* Line 373: the test that ends the retries
GiveUpBadLate(n) == n > max_retries
GiveUp(n) == n >= max_retries

\* Line 378: time.sleep(2 ** retry_count)
BackoffSeconds(n) == 2 ^ n

\* How db.session.execute(text('SELECT 1')) can end: it returns, it raises
\* OperationalError, or it raises another exception
ConnectOutcomes == {"ok", "OperationalError", "Error"}

\* The rows of sample_faqs, in the order create_sample_faqs adds them
SampleRows ==
    << \* How do I apply for vacation leave?
      [question |->
          <<"H","o","w"," ","d","o"," ","I"," ","a","p","p","l","y"," ","f","o","r"," ","v","a",
            "c","a","t","i","o","n"," ","l","e","a","v","e","?">>,
       answer |->
          <<"Y","o","u"," ","c","a","n"," ","a","p","p","l","y"," ","f","o","r"," ","v","a","c",
            "a","t","i","o","n"," ","l","e","a","v","e"," ","t","h","r","o","u","g","h"," ","t",
            "h","e"," ","H","R"," ","p","o","r","t","a","l"," ","u","n","d","e","r"," ","'","L",
            "e","a","v","e"," ","M","a","n","a","g","e","m","e","n","t","'","."," ","L","o","g",
            " ","i","n"," ","w","i","t","h"," ","y","o","u","r"," ","e","m","p","l","o","y","e",
            "e"," ","c","r","e","d","e","n","t","i","a","l","s",","," ","s","e","l","e","c","t",
            " ","'","R","e","q","u","e","s","t"," ","L","e","a","v","e","'",","," ","c","h","o",
            "o","s","e"," ","'","V","a","c","a","t","i","o","n","'",","," ","a","n","d"," ","f",
            "i","l","l"," ","i","n"," ","t","h","e"," ","r","e","q","u","i","r","e","d"," ","d",
            "a","t","e","s"," ","a","n","d"," ","d","e","t","a","i","l","s",".">>]
    ,  \* How to reset my password?
      [question |->
          <<"H","o","w"," ","t","o"," ","r","e","s","e","t"," ","m","y"," ","p","a","s","s","w",
            "o","r","d","?">>,
       answer |->
          <<"T","o"," ","r","e","s","e","t"," ","y","o","u","r"," ","p","a","s","s","w","o","r",
            "d",","," ","g","o"," ","t","o"," ","t","h","e"," ","I","T"," ","s","e","l","f","-",
            "s","e","r","v","i","c","e"," ","p","o","r","t","a","l"," ","a","n","d"," ","c","l",
            "i","c","k"," ","'","R","e","s","e","t"," ","P","a","s","s","w","o","r","d","'",".",
            " ","Y","o","u"," ","c","a","n"," ","a","l","s","o"," ","c","o","n","t","a","c","t",
            " ","t","h","e"," ","I","T"," ","h","e","l","p","d","e","s","k"," ","a","t"," ","e",
            "x","t","."," ","1","2","3","4"," ","o","r"," ","e","m","a","i","l"," ","i","t","-",
            "s","u","p","p","o","r","t","@","c","o","m","p","a","n","y",".","c","o","m",".">>]
    ,  \* Where can I find my payroll information?
      [question |->
          <<"W","h","e","r","e"," ","c","a","n"," ","I"," ","f","i","n","d"," ","m","y"," ","p",
            "a","y","r","o","l","l"," ","i","n","f","o","r","m","a","t","i","o","n","?">>,
       answer |->
          <<"Y","o","u","r"," ","p","a","y","r","o","l","l"," ","i","n","f","o","r","m","a","t",
            "i","o","n"," ","i","s"," ","a","v","a","i","l","a","b","l","e"," ","i","n"," ","t",
            "h","e"," ","E","m","p","l","o","y","e","e"," ","S","e","l","f","-","S","e","r","v",
            "i","c","e"," ","p","o","r","t","a","l"," ","u","n","d","e","r"," ","'","P","a","y",
            "r","o","l","l"," ","&"," ","B","e","n","e","f","i","t","s","'","."," ","Y","o","u",
            " ","c","a","n"," ","v","i","e","w"," ","p","a","y"," ","s","t","u","b","s",","," ",
            "t","a","x"," ","d","o","c","u","m","e","n","t","s",","," ","a","n","d"," ","u","p",
            "d","a","t","e"," ","d","i","r","e","c","t"," ","d","e","p","o","s","i","t"," ","i",
            "n","f","o","r","m","a","t","i","o","n"," ","t","h","e","r","e",".">>]
    ,  \* What are the company working hours?
      [question |->
          <<"W","h","a","t"," ","a","r","e"," ","t","h","e"," ","c","o","m","p","a","n","y"," ",
            "w","o","r","k","i","n","g"," ","h","o","u","r","s","?">>,
       answer |->
          <<"S","t","a","n","d","a","r","d"," ","w","o","r","k","i","n","g"," ","h","o","u","r",
            "s"," ","a","r","e"," ","M","o","n","d","a","y"," ","t","o"," ","F","r","i","d","a",
            "y",","," ","9",":","0","0"," ","A","M"," ","t","o"," ","5",":","0","0"," ","P","M",
            "."," ","S","o","m","e"," ","d","e","p","a","r","t","m","e","n","t","s"," ","m","a",
            "y"," ","h","a","v","e"," ","f","l","e","x","i","b","l","e"," ","h","o","u","r","s",
            "."," ","P","l","e","a","s","e"," ","c","h","e","c","k"," ","w","i","t","h"," ","y",
            "o","u","r"," ","m","a","n","a","g","e","r"," ","f","o","r"," ","s","p","e","c","i",
            "f","i","c"," ","a","r","r","a","n","g","e","m","e","n","t","s",".">>]
    ,  \* How do I access the company VPN?
      [question |->
          <<"H","o","w"," ","d","o"," ","I"," ","a","c","c","e","s","s"," ","t","h","e"," ","c",
            "o","m","p","a","n","y"," ","V","P","N","?">>,
       answer |->
          <<"T","o"," ","a","c","c","e","s","s"," ","t","h","e"," ","c","o","m","p","a","n","y",
            " ","V","P","N",","," ","d","o","w","n","l","o","a","d"," ","t","h","e"," ","V","P",
            "N"," ","c","l","i","e","n","t"," ","f","r","o","m"," ","t","h","e"," ","I","T"," ",
            "p","o","r","t","a","l",","," ","u","s","e"," ","y","o","u","r"," ","d","o","m","a",
            "i","n"," ","c","r","e","d","e","n","t","i","a","l","s"," ","t","o"," ","l","o","g",
            " ","i","n","."," ","F","o","r"," ","s","e","t","u","p"," ","a","s","s","i","s","t",
            "a","n","c","e",","," ","c","o","n","t","a","c","t"," ","I","T"," ","s","u","p","p",
            "o","r","t"," ","a","t"," ","i","t","-","s","u","p","p","o","r","t","@","c","o","m",
            "p","a","n","y",".","c","o","m",".">>]
    ,  \* What is the dress code policy?
      [question |->
          <<"W","h","a","t"," ","i","s"," ","t","h","e"," ","d","r","e","s","s"," ","c","o","d",
            "e"," ","p","o","l","i","c","y","?">>,
       answer |->
          <<"O","u","r"," ","d","r","e","s","s"," ","c","o","d","e"," ","i","s"," ","b","u","s",
            "i","n","e","s","s"," ","c","a","s","u","a","l","."," ","J","e","a","n","s"," ","a",
            "r","e"," ","a","l","l","o","w","e","d"," ","o","n"," ","F","r","i","d","a","y","s",
            "."," ","F","o","r"," ","c","l","i","e","n","t"," ","m","e","e","t","i","n","g","s",
            ","," ","b","u","s","i","n","e","s","s"," ","f","o","r","m","a","l"," ","a","t","t",
            "i","r","e"," ","i","s"," ","r","e","q","u","i","r","e","d","."," ","P","l","e","a",
            "s","e"," ","r","e","f","e","r"," ","t","o"," ","t","h","e"," ","e","m","p","l","o",
            "y","e","e"," ","h","a","n","d","b","o","o","k"," ","f","o","r"," ","d","e","t","a",
            "i","l","e","d"," ","g","u","i","d","e","l","i","n","e","s",".">>]
    ,  \* How to book a meeting room?
      [question |->
          <<"H","o","w"," ","t","o"," ","b","o","o","k"," ","a"," ","m","e","e","t","i","n","g",
            " ","r","o","o","m","?">>,
       answer |->
          <<"M","e","e","t","i","n","g"," ","r","o","o","m","s"," ","c","a","n"," ","b","e"," ",
            "b","o","o","k","e","d"," ","t","h","r","o","u","g","h"," ","O","u","t","l","o","o",
            "k"," ","c","a","l","e","n","d","a","r"," ","o","r"," ","t","h","e"," ","r","o","o",
            "m"," ","b","o","o","k","i","n","g"," ","s","y","s","t","e","m"," ","o","n"," ","t",
            "h","e"," ","i","n","t","r","a","n","e","t","."," ","R","o","o","m","s"," ","a","r",
            "e"," ","a","v","a","i","l","a","b","l","e"," ","o","n"," ","a"," ","f","i","r","s",
            "t","-","c","o","m","e",","," ","f","i","r","s","t","-","s","e","r","v","e","d"," ",
            "b","a","s","i","s","."," ","P","l","e","a","s","e"," ","c","a","n","c","e","l"," ",
            "i","f"," ","y","o","u"," ","n","o"," ","l","o","n","g","e","r"," ","n","e","e","d",
            " ","t","h","e"," ","r","o","o","m",".">>]
    ,  \* What are the health insurance benefits?
      [question |->
          <<"W","h","a","t"," ","a","r","e"," ","t","h","e"," ","h","e","a","l","t","h"," ","i",
            "n","s","u","r","a","n","c","e"," ","b","e","n","e","f","i","t","s","?">>,
       answer |->
          <<"W","e"," ","o","f","f","e","r"," ","c","o","m","p","r","e","h","e","n","s","i","v",
            "e"," ","h","e","a","l","t","h"," ","i","n","s","u","r","a","n","c","e"," ","i","n",
            "c","l","u","d","i","n","g"," ","m","e","d","i","c","a","l",","," ","d","e","n","t",
            "a","l",","," ","a","n","d"," ","v","i","s","i","o","n"," ","c","o","v","e","r","a",
            "g","e","."," ","D","e","t","a","i","l","s"," ","a","r","e"," ","a","v","a","i","l",
            "a","b","l","e"," ","i","n"," ","t","h","e"," ","B","e","n","e","f","i","t","s"," ",
            "s","e","c","t","i","o","n"," ","o","f"," ","t","h","e"," ","H","R"," ","p","o","r",
            "t","a","l","."," ","O","p","e","n"," ","e","n","r","o","l","l","m","e","n","t"," ",
            "i","s"," ","i","n"," ","N","o","v","e","m","b","e","r"," ","e","a","c","h"," ","y",
            "e","a","r",".">>]
    ,  \* How do I report a technical issue?
      [question |->
          <<"H","o","w"," ","d","o"," ","I"," ","r","e","p","o","r","t"," ","a"," ","t","e","c",
            "h","n","i","c","a","l"," ","i","s","s","u","e","?">>,
       answer |->
          <<"T","e","c","h","n","i","c","a","l"," ","i","s","s","u","e","s"," ","c","a","n"," ",
            "b","e"," ","r","e","p","o","r","t","e","d"," ","t","h","r","o","u","g","h"," ","t",
            "h","e"," ","I","T"," ","h","e","l","p","d","e","s","k"," ","p","o","r","t","a","l",
            ","," ","b","y"," ","c","a","l","l","i","n","g"," ","e","x","t","."," ","1","2","3",
            "4",","," ","o","r"," ","e","m","a","i","l","i","n","g"," ","i","t","-","s","u","p",
            "p","o","r","t","@","c","o","m","p","a","n","y",".","c","o","m","."," ","P","l","e",
            "a","s","e"," ","p","r","o","v","i","d","e"," ","d","e","t","a","i","l","e","d"," ",
            "i","n","f","o","r","m","a","t","i","o","n"," ","a","b","o","u","t"," ","t","h","e",
            " ","i","s","s","u","e"," ","f","o","r"," ","f","a","s","t","e","r"," ","r","e","s",
            "o","l","u","t","i","o","n",".">>]
    ,  \* What is the remote work policy?
      [question |->
          <<"W","h","a","t"," ","i","s"," ","t","h","e"," ","r","e","m","o","t","e"," ","w","o",
            "r","k"," ","p","o","l","i","c","y","?">>,
       answer |->
          <<"R","e","m","o","t","e"," ","w","o","r","k"," ","i","s"," ","a","v","a","i","l","a",
            "b","l","e"," ","2","-","3"," ","d","a","y","s"," ","p","e","r"," ","w","e","e","k",
            " ","d","e","p","e","n","d","i","n","g"," ","o","n"," ","y","o","u","r"," ","r","o",
            "l","e"," ","a","n","d"," ","m","a","n","a","g","e","r"," ","a","p","p","r","o","v",
            "a","l","."," ","P","l","e","a","s","e"," ","d","i","s","c","u","s","s"," ","w","i",
            "t","h"," ","y","o","u","r"," ","m","a","n","a","g","e","r"," ","a","n","d"," ","s",
            "u","b","m","i","t"," ","a"," ","r","e","m","o","t","e"," ","w","o","r","k"," ","r",
            "e","q","u","e","s","t"," ","t","h","r","o","u","g","h"," ","H","R"," ","f","o","r",
            " ","a","p","p","r","o","v","a","l",".">>]
    ,  \* How to access company training programs?
      [question |->
          <<"H","o","w"," ","t","o"," ","a","c","c","e","s","s"," ","c","o","m","p","a","n","y",
            " ","t","r","a","i","n","i","n","g"," ","p","r","o","g","r","a","m","s","?">>,
       answer |->
          <<"T","r","a","i","n","i","n","g"," ","p","r","o","g","r","a","m","s"," ","a","r","e",
            " ","a","v","a","i","l","a","b","l","e"," ","t","h","r","o","u","g","h"," ","t","h",
            "e"," ","L","e","a","r","n","i","n","g"," ","M","a","n","a","g","e","m","e","n","t",
            " ","S","y","s","t","e","m"," ","(","L","M","S",")"," ","o","n"," ","t","h","e"," ",
            "c","o","m","p","a","n","y"," ","i","n","t","r","a","n","e","t","."," ","Y","o","u",
            " ","c","a","n"," ","b","r","o","w","s","e"," ","c","o","u","r","s","e","s",","," ",
            "e","n","r","o","l","l",","," ","a","n","d"," ","t","r","a","c","k"," ","y","o","u",
            "r"," ","p","r","o","g","r","e","s","s","."," ","S","o","m","e"," ","c","o","u","r",
            "s","e","s"," ","r","e","q","u","i","r","e"," ","m","a","n","a","g","e","r"," ","a",
            "p","p","r","o","v","a","l",".">>]
    ,  \* What is the expense reimbursement process?
      [question |->
          <<"W","h","a","t"," ","i","s"," ","t","h","e"," ","e","x","p","e","n","s","e"," ","r",
            "e","i","m","b","u","r","s","e","m","e","n","t"," ","p","r","o","c","e","s","s","?">>,
       answer |->
          <<"S","u","b","m","i","t"," ","e","x","p","e","n","s","e"," ","r","e","p","o","r","t",
            "s"," ","t","h","r","o","u","g","h"," ","t","h","e"," ","F","i","n","a","n","c","e",
            " ","p","o","r","t","a","l"," ","w","i","t","h"," ","r","e","c","e","i","p","t","s",
            " ","a","t","t","a","c","h","e","d","."," ","B","u","s","i","n","e","s","s"," ","e",
            "x","p","e","n","s","e","s"," ","a","r","e"," ","t","y","p","i","c","a","l","l","y",
            " ","r","e","i","m","b","u","r","s","e","d"," ","w","i","t","h","i","n"," ","2"," ",
            "w","e","e","k","s","."," ","F","o","r"," ","q","u","e","s","t","i","o","n","s",",",
            " ","c","o","n","t","a","c","t"," ","f","i","n","a","n","c","e","@","c","o","m","p",
            "a","n","y",".","c","o","m",".">>]
    >>

\* The rows as FAQ.query.all() returns them after the import into an empty
\* table
SampleFaqs ==
    [i \in 1..Len(SampleRows) |->
        [id |-> i, question |-> SampleRows[i].question,
         answer |-> SampleRows[i].answer]]

\* The table with the password row alone
PasswordOnly ==
    <<[id |-> 1, question |-> SampleRows[2].question,
       answer |-> SampleRows[2].answer]>>

\* What the FAQ table of the deployment can hold when the process starts
RailwayTables == {<<>>, PasswordOnly, SampleFaqs}

\* Questions asked of the deployed service
ResetQuestion ==
    <<"h","o","w"," ","d","o"," ","I"," ","r","e","s","e","t"," ","m","y"," ","p","a","s",
      "s","w","o","r","d">>   \* 'how do I reset my password'

NonsenseQuestion == <<"x","y","z","z","y","p","l","u","g","h">>   \* 'xyzzyplugh'

ShortWordsQuestion == <<"d","o"," ","I">>   \* 'do I'

RailwayQuestions == {ResetQuestion, NonsenseQuestion, ShortWordsQuestion}

RailwayBodies == {[kind |-> "text", question |-> q] : q \in RailwayQuestions}

RailwayModes == {"ok", "fail"}

\* Lines 71-80 of import_data_railway.py: rows are added to an empty table
\* only
Imported(table) == IF Len(table) > 0 THEN table ELSE SampleFaqs

\* How import_data_railway.main can end inside its try block: it completes,
\* create_sample_faqs raises, or create_admin_user raises after the rows
\* were committed.  "ImportError" is line 47 of start_railway.py failing to
\* import the module.
ImportOutcomes == {"ok", "ImportError", "Error", "AdminError"}

\* What leaves import_data_railway.main (lines 109-122): an exception in the
\* try block is printed and turned into sys.exit(1)
RaisedByImport(outcome) ==
    CASE outcome = "ok" -> ""
      [] outcome = "ImportError" -> "ImportError"
      [] OTHER -> "SystemExit"

\* `except Exception` catches every exception but SystemExit (and the other
\* BaseException classes)
CaughtAsException(exc) == exc # "SystemExit"

calls == <<pc, body, ai_mode, locals>>

InitRailway ==
    /\ boot = "connect"
    /\ schema \in BOOLEAN
    /\ faqs \in (IF schema THEN RailwayTables ELSE {<<>>})
    /\ retry_count = 0
    /\ attempts = 0
    /\ sleeps = <<>>
    /\ connected = FALSE
    /\ created = FALSE
    /\ init_error = ""
    /\ startup_logged = FALSE
    /\ migration_success = "unset"
    /\ import_outcome = "unset"
    /\ run_called = FALSE
    /\ exit_code = -1
    /\ next_id = Len(faqs) + 1
    /\ InitChat
    /\ InitCalls({1})

\* Lines 364-378: one turn of the while loop
TryConnect ==
    /\ boot = "connect"
    /\ retry_count < max_retries
    /\ attempts' = attempts + 1
    /\ \E outcome \in ConnectOutcomes :
          CASE outcome = "ok" ->
                  /\ connected' = TRUE
                  /\ boot' = "create_all"
                  /\ UNCHANGED <<retry_count, init_error>>
            [] outcome = "OperationalError" ->
                  /\ retry_count' = retry_count + 1
                  /\ IF GiveUp(retry_count + 1)
                     THEN boot' = "startup" /\ init_error' = "OperationalError"
                     ELSE boot' = "sleep" /\ init_error' = init_error
                  /\ UNCHANGED connected
            [] OTHER ->
                  /\ boot' = "startup"
                  /\ init_error' = "Error"
                  /\ UNCHANGED <<retry_count, connected>>
    /\ UNCHANGED <<schema, sleeps, created, startup_logged, migration_success,
                   import_outcome, run_called, exit_code, faqs, next_id, calls, chat>>

\* Line 378, and the loop test of line 364 after it
Backoff ==
    /\ boot = "sleep"
    /\ sleeps' = Append(sleeps, BackoffSeconds(retry_count))
    /\ boot' = IF retry_count < max_retries THEN "connect" ELSE "create_all"
    /\ UNCHANGED <<schema, retry_count, attempts, connected, created, init_error,
                   startup_logged, migration_success, import_outcome, run_called,
                   exit_code, faqs, next_id, calls, chat>>

\* Lines 380-386: db.create_all(), which can raise
CreateAll ==
    /\ boot = "create_all"
    /\ \E ok \in BOOLEAN :
          IF ok
          THEN /\ created' = TRUE
               /\ schema' = TRUE
               /\ init_error' = init_error
          ELSE /\ init_error' = "Error"
               /\ UNCHANGED <<created, schema>>
    /\ boot' = "startup"
    /\ UNCHANGED <<retry_count, attempts, sleeps, connected, startup_logged,
                   migration_success, import_outcome, run_called, exit_code,
                   faqs, next_id, calls, chat>>

\* Lines 388-395: the module catches what init_database raised, logs it and
\* goes on; the locals of init_database are gone
StartupCatch ==
    /\ boot = "startup"
    /\ startup_logged' = (init_error # "")
    /\ retry_count' = 0
    /\ attempts' = 0
    /\ sleeps' = <<>>
    /\ boot' = "migrate"
    /\ UNCHANGED <<schema, connected, created, init_error, migration_success,
                   import_outcome, run_called, exit_code, faqs, next_id, calls, chat>>

\* start_railway.py lines 11-42 and 72: the migration either brings the rows
\* of the SQLite file into the database or fails
Migrate ==
    /\ boot = "migrate"
    /\ \E ok \in BOOLEAN :
          IF ok
          THEN /\ migration_success' = "yes"
               /\ schema' = TRUE
               /\ faqs' \in RailwayTables
               /\ boot' = "run"
          ELSE /\ migration_success' = "no"
               /\ boot' = "import"
               /\ UNCHANGED <<schema, faqs>>
    /\ next_id' = Len(faqs') + 1
    /\ UNCHANGED <<retry_count, attempts, sleeps, connected, created, init_error,
                   startup_logged, import_outcome, run_called, exit_code, calls, chat>>

\* start_railway.py lines 75-77 and 44-53, with import_data_railway.main
ImportInitialData ==
    /\ boot = "import"
    /\ \E outcome \in ImportOutcomes :
          /\ outcome \in {"ok", "AdminError"} => schema
          /\ import_outcome' = outcome
          /\ faqs' = IF outcome \in {"ok", "AdminError"} THEN Imported(faqs) ELSE faqs
          /\ next_id' = Len(faqs') + 1
          /\ IF CaughtAsException(RaisedByImport(outcome))
             THEN boot' = "run" /\ exit_code' = exit_code
             ELSE boot' = "exited" /\ exit_code' = 1
    /\ UNCHANGED <<schema, retry_count, attempts, sleeps, connected, created,
                   init_error, startup_logged, migration_success, run_called, calls, chat>>

\* start_railway.py lines 79-84: app.run serves, or raises and the process
\* exits with status 1
RunApp ==
    /\ boot = "run"
    /\ run_called' = TRUE
    /\ \E ok \in BOOLEAN :
          IF ok
          THEN boot' = "serving" /\ exit_code' = exit_code
          ELSE boot' = "exited" /\ exit_code' = 1
    /\ UNCHANGED <<schema, retry_count, attempts, sleeps, connected, created,
                   init_error, startup_logged, migration_success, import_outcome,
                   faqs, next_id, calls, chat>>

ReceiveRailway(c) == ReceiveFrom(c, RailwayBodies, RailwayModes)

InitDatabaseStep == TryConnect \/ Backoff \/ CreateAll

NextRailway ==
    \/ TryConnect
    \/ Backoff
    \/ CreateAll
    \/ StartupCatch
    \/ Migrate
    \/ ImportInitialData
    \/ RunApp
    \/ \E c \in Calls : ReceiveRailway(c)
    \/ \E c \in Calls : ParseQuestion(c)
    \/ \E c \in Calls : QueryAll(c)
    \/ \E c \in Calls : QueryAllFails(c)
    \/ \E c \in Calls : ScoreStep(c)
    \/ \E c \in Calls : Select(c)
    \/ \E c \in Calls : AttemptAI(c)
    \/ \E c \in Calls : AfterAIFailure(c)
    \/ \E c \in Calls : Respond(c)

\* The deployed process, from its start.  Each step of init_database ends:
\* the connection test returns or raises, and the sleeps are finite.
SpecRailway == InitRailway /\ [][NextRailway]_vars /\ WF_vars(InitDatabaseStep)

\* init_database is running
InInitDatabase == boot \in {"connect", "sleep", "create_all"}

\* init_database has returned or raised, and its counters are still there
InitDatabaseOver == boot = "startup"

\* The safety part of C19
C19_Safe ==
    /\ attempts <= max_retries
    /\ retry_count <= max_retries
    /\ (InInitDatabase \/ InitDatabaseOver) =>
          /\ Len(sleeps) >= attempts - 1
          /\ boot = "connect" => Len(sleeps) = attempts
          /\ \A k \in 1..Len(sleeps) : sleeps[k] = BackoffSeconds(k)
    /\ boot = "create_all" => connected
    /\ created => connected /\ schema
    /\ init_error = "OperationalError" =>
          /\ ~connected /\ ~created
          /\ InitDatabaseOver => attempts = max_retries /\ retry_count = max_retries
    /\ (InitDatabaseOver /\ retry_count = max_retries)
          => init_error = "OperationalError"
    /\ (init_error # "" /\ ~InInitDatabase /\ ~InitDatabaseOver) =>
          /\ startup_logged
          /\ ~created
          /\ exit_code # -1 => (import_outcome # "unset" \/ run_called)

\* C19: init_database tests the connection at most 3 times and sleeps
\* between two tests; it ends; db.create_all() runs only after a test
\* succeeded; after the third OperationalError it raises with no table
\* created, and the module logs the failure and goes on to main.
C19_InitDatabase == []C19_Safe /\ <>(~InInitDatabase)

C19_Witness ==
    /\ InitDatabaseOver
    /\ init_error = "OperationalError"
    /\ attempts = max_retries
    /\ sleeps = <<2, 4>>
    /\ ~created

\* The failure of C19 is logged and main goes on
C19_WentOn ==
    /\ init_error = "OperationalError"
    /\ startup_logged
    /\ boot = "serving"

\* import_initial_data is called exactly when the migration did not succeed
ImportedIffNotMigrated ==
    /\ import_outcome # "unset" => migration_success = "no"
    /\ (migration_success = "no" /\ boot # "import") => import_outcome # "unset"

\* The import of the sample data failed
ImportFailed == import_outcome \in {"ImportError", "Error", "AdminError"}

\* C20 as stated: the sample data is imported exactly when the migration did
\* not succeed, and after a failed import main still reaches app.run.
C20_ImportFailureStillStarts ==
    /\ ImportedIffNotMigrated
    /\ (ImportFailed /\ boot # "run") => run_called

\* The web server is started after a failed import only when the failure
\* was in importing the module
C20_ExitsOnImportFailure ==
    (ImportFailed /\ import_outcome # "ImportError")
        => boot = "exited" /\ exit_code = 1 /\ ~run_called

C20_ExitReached ==
    /\ import_outcome = "Error"
    /\ boot = "exited"
    /\ faqs = <<>>

\* The call is scenario A: the table holds the row "How to reset my
\* password?" of the sample data alone and the question is "how do I reset
\* my password"
PasswordScenario(c) ==
    /\ pc[c] = "done"
    /\ HasCandidates(c)
    /\ Len(all_faqs[c]) = 1
    /\ all_faqs[c][1].question = SampleRows[2].question
    /\ all_faqs[c][1].answer = SampleRows[2].answer
    /\ user_question[c] = ResetQuestion

\* C11 as stated: in scenario A the score is at least 6 and the response is
\* the database answer with confidence high.
C11_ScenarioIsHigh ==
    \A c \in Calls :
        PasswordScenario(c)
            => /\ Returned(c)
               /\ result[c].relevance_score >= 2 * HighPoints
               /\ result[c].source = "database_faq"
               /\ result[c].confidence = "high"

\* C11 amended: in scenario A the score is 2.5 (5 half points: the question
\* words "how" and "reset" and the answer word "reset", no containment) and
\* the response is the database answer with confidence medium, given
\* without calling the AI service.
C11_ScenarioIsMedium ==
    \A c \in Calls :
        PasswordScenario(c)
            => /\ Returned(c)
               /\ ScoreAt(c, 1) = 2 * QuestionWordPoints + AnswerWordPoints
               /\ ~ContainsEither(Lower(user_question[c]),
                                  Lower(all_faqs[c][1].question))
               /\ result[c].relevance_score = 5
               /\ result[c].source = "database_faq"
               /\ result[c].confidence = "medium"
               /\ result[c].faq_id = all_faqs[c][1].id
               /\ result[c].answer = all_faqs[c][1].answer
               /\ ai_calls[c] = 0

C11_Witness ==
    \E c \in Calls :
        /\ PasswordScenario(c)
        /\ ai_mode[c] = "ok"
        /\ result[c].source = "database_faq"
        /\ result[c].relevance_score = 5

\* The first min(8, n) stored questions, in table order
FirstTopics(fs) ==
    LET n == IF Len(fs) < MaxTopics THEN Len(fs) ELSE MaxTopics
    IN  [i \in 1..n |-> fs[i].question]

\* No user word longer than 3 occurs inside any candidate
NoHit(c) == \A i \in 1..Len(all_faqs[c]) : WordsInside(c, i) = {}

\* C12: the table has rows, the AI service fails, every candidate scores 0
\* and no user word longer than 3 occurs inside a candidate: the response
\* is no_match with found false and confidence low, its topics are the
\* questions of the first min(8, n) rows in table order, and it carries the
\* text of the AI error.
C12_NoMatchTopics ==
    \A c \in Calls :
        (AIFailed(c) /\ TopScore(c, Len(all_faqs[c])) = 0 /\ NoHit(c))
            => /\ result[c].status = 200
               /\ result[c].source = "no_match"
               /\ result[c].found = FALSE
               /\ result[c].confidence = "low"
               /\ "available_topics" \in result[c].fields
               /\ result[c].available_topics = FirstTopics(all_faqs[c])
               /\ "ai_error" \in result[c].fields
               /\ result[c].ai_error = AIErrorText(ai_mode[c])

C12_Witness ==
    \E c \in Calls :
        /\ AIFailed(c)
        /\ user_question[c] = NonsenseQuestion
        /\ Len(all_faqs[c]) > MaxTopics
        /\ result[c].source = "no_match"
        /\ Len(result[c].available_topics) = MaxTopics
        /\ result[c].available_topics[MaxTopics] = SampleRows[MaxTopics].question

\* Every whitespace-delimited word of the call's question has at most 2
\* characters
AllShortWords(c) ==
    LET user_words == Split(Lower(user_question[c]))
    IN  \A k \in 1..Len(user_words) : Len(user_words[k]) <= MinWordLen

\* The containment bonuses of lines 237-241 for the i-th candidate
ContainmentPoints(c, i) ==
    (IF ContainsEither(Lower(user_question[c]), Lower(all_faqs[c][i].question))
     THEN QuestionContainPoints ELSE 0)
    + (IF ContainsEither(Lower(user_question[c]), Lower(all_faqs[c][i].answer))
       THEN AnswerContainPoints ELSE 0)

\* C13 as stated: a question whose words all have at most 2 characters
\* scores 0 against every candidate.
C13_ShortWordsScoreZero ==
    \A c \in Calls :
        (pc[c] = "done" /\ HasCandidates(c) /\ AllShortWords(c))
            => \A i \in 1..Len(all_faqs[c]) : ScoreAt(c, i) = 0

\* C13 amended: such a question earns no word-overlap points; its score
\* against a candidate is the containment bonus alone, 5 when the question
\* is inside the candidate's question (or the reverse) plus 3 when it is
\* inside the candidate's answer (or the reverse), and 0 only when neither
\* holds.
C13_ShortWordsScoreContainment ==
    \A c \in Calls :
        (pc[c] = "done" /\ HasCandidates(c) /\ AllShortWords(c))
            => \A i \in 1..Len(all_faqs[c]) :
                  /\ ScoreAt(c, i) = ContainmentPoints(c, i)
                  /\ WordHits(Split(Lower(all_faqs[c][i].question)),
                              Lower(user_question[c])) = 0
                  /\ WordHits(Split(Lower(all_faqs[c][i].answer)),
                              Lower(user_question[c])) = 0

C13_Witness ==
    \E c \in Calls :
        /\ Returned(c) /\ HasCandidates(c) /\ AllShortWords(c)
        /\ user_question[c] = ShortWordsQuestion
        /\ Len(all_faqs[c]) > 1
        /\ ScoreAt(c, 1) = QuestionContainPoints
        /\ ScoreAt(c, 2) = 0
        /\ result[c].source = "database_faq"
        /\ result[c].confidence = "high"

\* ---------------------------------------------------------------------
\* The FAQ table under the handlers that write it (add_faq, update_faq,
\* delete_faq), next to one call of search_faq.

\* The highest id the database hands out
MaxId == 2

\* The record a POST /api/faqs carries
StoreNew ==
    [question |-> <<"v","a","c","a","t","i","o","n","s"," ","p","o","l","i","c","y">>,
     answer |-> <<"s","e","e"," ","p","o","r","t","a","l">>]   \* 'vacations policy' / 'see portal'

\* The JSON objects a PUT /api/faqs/<id> carries: the keys it has and their
\* values (the question, when sent, is the stored one again)
StoreUpdates ==
    {[keys |-> ks, question |-> StoreNew.question,
      answer |-> <<"m","y">>]                 \* 'my'
        : ks \in {{"answer"}, {"question", "answer"}, {}}}

\* Requests of the call that runs next to the writers
StoreBodies ==
    { [kind |-> "none", question |-> <<>>]
    , [kind |-> "text", question |-> <<" ","\t">>]
    , [kind |-> "text", question |-> <<"m","y"," ","v","a","c","a","t","i","o","n">>]
    , [kind |-> "text", question |-> <<"p","o","l","i","c","y"," ","n","o","w">>]
    , [kind |-> "text", question |-> <<"x","y","z","z","y">>]
    }

StoreModes == {"ok", "fail"}

\* FAQ.query.get(faq_id): the position of the row, 0 if there is none
RowOf(table, faq_id) ==
    IF \E i \in 1..Len(table) : table[i].id = faq_id
    THEN CHOOSE i \in 1..Len(table) : table[i].id = faq_id
    ELSE 0

\* The table without its i-th row
WithoutRow(table, i) == SubSeq(table, 1, i - 1) \o SubSeq(table, i + 1, Len(table))

InitStore ==
    /\ faqs = <<>>
    /\ InitServing
    /\ InitCalls({1})

\* POST /api/faqs with one object, or with a list of `count` objects
AddFaq ==
    /\ boot = "serving" /\ schema
    /\ \E count \in 1..2 :
          /\ next_id + count - 1 <= MaxId
          /\ faqs' = faqs \o [k \in 1..count |->
                                 [id |-> next_id + k - 1,
                                  question |-> StoreNew.question,
                                  answer |-> StoreNew.answer]]
          /\ next_id' = next_id + count
    /\ UNCHANGED <<boot, schema, retry_count, attempts, sleeps, connected, created,
                   init_error, startup_logged, migration_success, import_outcome,
                   run_called, exit_code, calls, chat>>

\* PUT /api/faqs/<faq_id>
UpdateFaq ==
    /\ boot = "serving" /\ schema
    /\ \E faq_id \in 1..MaxId, data \in StoreUpdates :
          LET i == RowOf(faqs, faq_id)
          IN  IF i = 0
              THEN faqs' = faqs
              ELSE faqs' = [faqs EXCEPT
                              ![i].question = IF "question" \in data.keys
                                              THEN data.question ELSE @,
                              ![i].answer = IF "answer" \in data.keys
                                            THEN data.answer ELSE @]
    /\ UNCHANGED <<env, calls>>

\* DELETE /api/faqs/<faq_id>
DeleteFaq ==
    /\ boot = "serving" /\ schema
    /\ \E faq_id \in 1..MaxId :
          LET i == RowOf(faqs, faq_id)
          IN  faqs' = IF i = 0 THEN faqs ELSE WithoutRow(faqs, i)
    /\ UNCHANGED <<env, calls>>

ReceiveStore(c) == ReceiveFrom(c, StoreBodies, StoreModes)

\* A step of a call of search_faq
CallStepStore ==
    \E c \in Calls :
        \/ ReceiveStore(c)
        \/ ParseQuestion(c)
        \/ QueryAll(c)
        \/ QueryAllFails(c)
        \/ ScoreStep(c)
        \/ Select(c)
        \/ AttemptAI(c)
        \/ AfterAIFailure(c)
        \/ Respond(c)

NextStore ==
    \/ AddFaq
    \/ UpdateFaq
    \/ DeleteFaq
    \/ \E c \in Calls : ReceiveStore(c)
    \/ \E c \in Calls : ParseQuestion(c)
    \/ \E c \in Calls : QueryAll(c)
    \/ \E c \in Calls : QueryAllFails(c)
    \/ \E c \in Calls : ScoreStep(c)
    \/ \E c \in Calls : Select(c)
    \/ \E c \in Calls : AttemptAI(c)
    \/ \E c \in Calls : AfterAIFailure(c)
    \/ \E c \in Calls : Respond(c)

SpecStore == InitStore /\ [][NextStore]_vars

\* C15: no step of a call of search_faq, in any tier or on any error path,
\* changes the FAQ table (its rows, their order, their text) or takes an id
\* from the database.
C15_CallLeavesStore ==
    [][CallStepStore => (faqs' = faqs /\ next_id' = next_id)]_vars

\* A call returned from the partial-match tier while a writer changed the
\* table under it
C15_Witness ==
    \E c \in Calls :
        /\ Returned(c)
        /\ result[c].source = "database_partial_match"
        /\ all_faqs[c] # <<>>
        /\ faqs # all_faqs[c]
        /\ next_id = MaxId + 1

\* A call ended on its error path next to a table with rows
C15_ErrorPathReached ==
    \E c \in Calls :
        /\ pc[c] = "done"
        /\ raised[c] # ""
        /\ faqs # <<>>

\* ---------------------------------------------------------------------
\* Two calls of search_faq in flight at once (Flask serves requests on
\* threads), next to a writer that deletes rows.

\* The table the two calls start on
TwoTable ==
    <<[id |-> 1,
       question |-> <<"v","a","c","a","t","i","o","n"," ","l","e","a","v","e","?">>,
       answer |-> <<"a","s","k"," ","b","o","s","s">>],   \* 'vacation leave?' / 'ask boss'
      [id |-> 2,
       question |-> <<"R","e","s","e","t"," ","p","a","s","s">>,
       answer |-> <<"u","s","e"," ","p","o","r","t","a","l">>]>>   \* 'Reset pass' / 'use portal'

TwoBodies ==
    { [kind |-> "text", question |-> <<"m","y"," ","v","a","c","a","t","i","o","n">>]
    , [kind |-> "text",
       question |-> <<" ","H","o","w"," ","t","o"," ","R","e","s","e","t"," ","P","a","s","s"," ">>]
    , [kind |-> "text", question |-> <<"x","y","z","z","y">>]
    }

TwoModes == {"ok", "fail"}

InitTwo ==
    /\ faqs = TwoTable
    /\ InitServing
    /\ InitCalls({1, 2})

ReceiveTwo(c) == ReceiveFrom(c, TwoBodies, TwoModes)

\* A step of call c
CallStepTwo(c) ==
    \/ ReceiveTwo(c)
    \/ ParseQuestion(c)
    \/ QueryAll(c)
    \/ QueryAllFails(c)
    \/ ScoreStep(c)
    \/ Select(c)
    \/ AttemptAI(c)
    \/ AfterAIFailure(c)
    \/ Respond(c)

NextTwo ==
    \/ DeleteFaq
    \/ \E c \in Calls : ReceiveTwo(c)
    \/ \E c \in Calls : ParseQuestion(c)
    \/ \E c \in Calls : QueryAll(c)
    \/ \E c \in Calls : QueryAllFails(c)
    \/ \E c \in Calls : ScoreStep(c)
    \/ \E c \in Calls : Select(c)
    \/ \E c \in Calls : AttemptAI(c)
    \/ \E c \in Calls : AfterAIFailure(c)
    \/ \E c \in Calls : Respond(c)

SpecTwo == InitTwo /\ [][NextTwo]_vars

\* What search_faq answers to the stripped question q on the rows fs when
\* the AI service behaves as `mode`, computed in one go
Resolve(q, fs, mode) ==
    LET sc == [i \in 1..Len(fs) |-> Score(Lower(q), fs[i])]
        top == TopOf(sc)
        best == IF top > 0 THEN fs[FirstTopOf(sc)] ELSE NoFaq
        partial_matches == PartialMatches(Lower(q), fs)
    IN  IF fs = <<>> THEN NoFaqsResponse(q)
        ELSE IF top >= ConfidentPoints THEN DatabaseResponse(q, best, top)
        ELSE IF mode # "fail" /\ "answer" \in AIAnswer(mode).keys
             THEN AIResponse(q, AIAnswer(mode))
        ELSE IF top > 0 THEN FallbackResponse(q, best, top, AIErrorText(mode))
        ELSE IF partial_matches # <<>>
             THEN PartialResponse(q, partial_matches[1], AIErrorText(mode))
        ELSE NoMatchResponse(q, fs, AIErrorText(mode))

\* The locals of one call
LocalsOf(c) ==
    <<pc[c], body[c], ai_mode[c], user_question[c], all_faqs[c], idx[c],
      best_match[c], best_score[c], ai_error[c], ai_calls[c], db_reads[c],
      bound[c], result[c], raised[c]>>

\* C14: two calls that were given the same question, read the same rows
\* and met the same behaviour of the AI service end with the same response
\* (answer, source, confidence, found, faq id, relevance score, strategy,
\* diagnostics) and with the same best match and best score.
C14_SameInputsSameResult ==
    \A c1, c2 \in Calls :
        (/\ pc[c1] = "done" /\ pc[c2] = "done"
         /\ body[c1] = body[c2]
         /\ ai_mode[c1] = ai_mode[c2]
         /\ bound[c1] = bound[c2]
         /\ all_faqs[c1] = all_faqs[c2])
            => /\ result[c1] = result[c2]
               /\ raised[c1] = raised[c2]
               /\ best_score[c1] = best_score[c2]
               /\ best_match[c1] = best_match[c2]

C14_Witness ==
    \E c1, c2 \in Calls :
        /\ c1 # c2
        /\ Returned(c1) /\ Returned(c2)
        /\ body[c1] = body[c2]
        /\ ai_mode[c1] = ai_mode[c2]
        /\ all_faqs[c1] = TwoTable /\ all_faqs[c2] = TwoTable
        /\ result[c1].source = "database_faq_fallback"
        /\ result[c2] = result[c1]

\* Every returned call that read the table answers what the rows it read
\* give for its question
ResultAlone ==
    \A c \in Calls :
        (Returned(c) /\ "all_faqs" \in bound[c])
            => result[c] = Resolve(user_question[c], all_faqs[c], ai_mode[c])

\* A step of one call changes no local of another call
StepsAreLocal ==
    \A c \in Calls :
        CallStepTwo(c) => \A k \in Calls \ {c} : LocalsOf(k)' = LocalsOf(k)

\* C16: under every interleaving of two calls, each call's response is the
\* one its question gets alone on the rows the call read, and no step of a
\* call reads or writes the best match, best score or partial matches of
\* the other.
C16_CallsIsolated == []ResultAlone /\ [][StepsAreLocal]_vars

C16_Witness ==
    \E c1, c2 \in Calls :
        /\ c1 # c2
        /\ Returned(c1) /\ Returned(c2)
        /\ user_question[c1] # user_question[c2]
        /\ all_faqs[c1] = TwoTable
        /\ Len(all_faqs[c2]) = 1
        /\ result[c1].source = "database_faq"
        /\ result[c2].source = "database_faq_fallback"
        /\ best_score[c1] > best_score[c2]

\* ---------------------------------------------------------------------
\* POST /api/chat (smart_chat, src/app.py lines 571-634) and the Log table.

\* The most rows the Log table grows to
MaxLogs == 2

\* The JSON bodies of /api/chat: no JSON object, or an object with a
\* question and, when session_id is not "", a session id
ChatBodies ==
    {[kind |-> "none", question |-> <<>>, session_id |-> ""]}
        \cup {[kind |-> "text", question |-> q, session_id |-> sid] :
                 q \in { <<" ","\t">>                                  \* ' \t'
                       , <<"m","y"," ","v","a","c","a","t","i","o","n">> \* 'my vacation'
                       , <<" ","h","i"," ">> },                         \* ' hi '
                 sid \in {"", "s1"}}

\* What keyword_service.process_question returns
KeywordResult == [keywords_str |-> "keywords", category |-> "general"]

\* How conversation_service answers for a session id: the session is
\* active, it is not, or the service raises
SessionOutcomes == {"active", "inactive", "raise"}

\* How ai_service.smart_answer ends for /api/chat: a result with answer,
\* source and confidence, a result without a source, or an exception
ChatAIModes == {"ok", "no_source", "fail"}

\* Lines 592-597: the row smart_chat logs
LogRow(question, keyword_result, session_id, active) ==
    [question |-> question,
     keywords |-> keyword_result.keywords_str,
     category |-> keyword_result.category,
     session_id |-> IF active THEN session_id ELSE ""]

\* Lines 624-634: the handler of the try block.  db.session.rollback()
\* drops what the session holds uncommitted; committed rows stay.
ChatExcept(where) ==
    /\ pending' = <<>>
    /\ logs' = logs
    /\ chat_failed_at' = where
    /\ chat_status' = 500
    /\ chat_pc' = "done"

search == <<faqs, calls>>

InitChatSpec ==
    /\ faqs \in {<<>>, TwoTable}
    /\ InitServing
    /\ InitCalls({1})

\* A request reaches /api/chat
ChatReceive ==
    /\ boot = "serving"
    /\ chat_pc = "idle"
    /\ Len(logs) < MaxLogs
    /\ \E b \in ChatBodies : chat_body' = b
    /\ logs_before' = logs
    /\ chat_pc' = "parse"
    /\ UNCHANGED <<logs, pending, chat_question, session_active, chat_failed_at,
                   chat_status>>

\* Lines 573-578, before the try block: data.get on None raises and the
\* exception leaves smart_chat; an empty question is answered with 400
ChatParse ==
    /\ chat_pc = "parse"
    /\ IF chat_body.kind = "none"
       THEN /\ chat_failed_at' = "parse"
            /\ chat_status' = 500
            /\ chat_pc' = "done"
            /\ UNCHANGED chat_question
       ELSE LET q == Strip(chat_body.question)
            IN  /\ chat_question' = q
                /\ chat_failed_at' = chat_failed_at
                /\ IF q = <<>>
                   THEN chat_status' = 400 /\ chat_pc' = "done"
                   ELSE chat_status' = chat_status /\ chat_pc' = "keywords"
    /\ UNCHANGED <<logs, pending, chat_body, session_active, logs_before>>

\* Line 582: keyword_service.process_question returns or raises
ChatKeywords ==
    /\ chat_pc = "keywords"
    /\ \E ok \in BOOLEAN :
          IF ok
          THEN /\ chat_pc' = "session"
               /\ UNCHANGED <<logs, pending, chat_failed_at, chat_status>>
          ELSE ChatExcept("keywords")
    /\ UNCHANGED <<chat_body, chat_question, session_active, logs_before>>

\* Lines 585-589: the session of the request, if it names one
ChatSession ==
    /\ chat_pc = "session"
    /\ IF chat_body.session_id = ""
       THEN /\ session_active' = FALSE
            /\ chat_pc' = "log"
            /\ UNCHANGED <<logs, pending, chat_failed_at, chat_status>>
       ELSE \E outcome \in SessionOutcomes :
              IF outcome = "raise"
              THEN ChatExcept("session") /\ UNCHANGED session_active
              ELSE /\ session_active' = (outcome = "active")
                   /\ chat_pc' = "log"
                   /\ UNCHANGED <<logs, pending, chat_failed_at, chat_status>>
    /\ UNCHANGED <<chat_body, chat_question, logs_before>>

\* Lines 592-598: the row is added to the session
ChatAddLog ==
    /\ chat_pc = "log"
    /\ pending' = Append(pending, LogRow(chat_question, KeywordResult,
                                          chat_body.session_id, session_active))
    /\ chat_pc' = "commit"
    /\ UNCHANGED <<logs, chat_body, chat_question, session_active, chat_failed_at,
                   chat_status, logs_before>>

\* Line 599: db.session.commit() writes the row, or raises
ChatCommit ==
    /\ chat_pc = "commit"
    /\ \E ok \in BOOLEAN :
          IF ok
          THEN /\ logs' = logs \o pending
               /\ pending' = <<>>
               /\ chat_pc' = "faqs"
               /\ UNCHANGED <<chat_failed_at, chat_status>>
          ELSE ChatExcept("commit")
    /\ UNCHANGED <<chat_body, chat_question, session_active, logs_before>>

\* Line 602: FAQ.query.all() returns or raises
ChatQueryFaqs ==
    /\ chat_pc = "faqs"
    /\ \E ok \in BOOLEAN :
          IF ok
          THEN /\ chat_pc' = "ai"
               /\ UNCHANGED <<logs, pending, chat_failed_at, chat_status>>
          ELSE ChatExcept("faqs")
    /\ UNCHANGED <<chat_body, chat_question, session_active, logs_before>>

\* Lines 605-622: the AI service answers and the response is built
\* (result['source'] of a result without one raises KeyError), or the
\* service raises
ChatSmartAnswer ==
    /\ chat_pc = "ai"
    /\ \E mode \in ChatAIModes :
          IF mode = "ok"
          THEN /\ chat_status' = 200
               /\ chat_pc' = "done"
               /\ UNCHANGED <<logs, pending, chat_failed_at>>
          ELSE ChatExcept("ai")
    /\ UNCHANGED <<chat_body, chat_question, session_active, logs_before>>

\* The call is over: its locals are gone
ChatRespond ==
    /\ chat_pc = "done"
    /\ chat_pc' = "idle"
    /\ chat_body' = [kind |-> "none", question |-> <<>>, session_id |-> ""]
    /\ chat_question' = <<>>
    /\ session_active' = FALSE
    /\ chat_failed_at' = ""
    /\ chat_status' = 0
    /\ logs_before' = <<>>
    /\ UNCHANGED <<logs, pending>>

\* The state that no step of smart_chat touches
outside_chat ==
    <<boot, schema, retry_count, attempts, sleeps, connected, created, init_error,
      startup_logged, migration_success, import_outcome, run_called, exit_code,
      next_id, search>>

NextChat ==
    \/ ChatReceive /\ UNCHANGED outside_chat
    \/ ChatParse /\ UNCHANGED outside_chat
    \/ ChatKeywords /\ UNCHANGED outside_chat
    \/ ChatSession /\ UNCHANGED outside_chat
    \/ ChatAddLog /\ UNCHANGED outside_chat
    \/ ChatCommit /\ UNCHANGED outside_chat
    \/ ChatQueryFaqs /\ UNCHANGED outside_chat
    \/ ChatSmartAnswer /\ UNCHANGED outside_chat
    \/ ChatRespond /\ UNCHANGED outside_chat

SpecChat == InitChatSpec /\ [][NextChat]_vars

\* The request was accepted (it entered the try block) and ended in the
\* except handler
ChatFailed == chat_pc = "done" /\ chat_status = 500 /\ chat_failed_at # "parse"

\* C21 as stated: when a request of /api/chat fails after its question was
\* accepted, the Log table is the same as before the request.
C21_FailureRestoresLog == ChatFailed => logs = logs_before

\* What the handler does restore: nothing is left uncommitted, and the Log
\* table is as before exactly when the failure came before the commit of
\* line 599 returned; a later failure leaves the row of the request in it
C21_LogKeptAfterCommit ==
    ChatFailed =>
        /\ pending = <<>>
        /\ chat_failed_at \in {"keywords", "session", "commit"} => logs = logs_before
        /\ chat_failed_at \in {"faqs", "ai"} =>
              logs = Append(logs_before,
                            LogRow(chat_question, KeywordResult,
                                   chat_body.session_id, session_active))

\* The AI service raised and the question is in the Log table
C21_LogKeptReached ==
    /\ ChatFailed
    /\ chat_failed_at = "ai"
    /\ Len(logs) = Len(logs_before) + 1
    /\ logs[Len(logs)].question = chat_question

====
